---- MODULE Spec2Model ----
(***************************************************************************)
(* Copy-trading pipeline of polymarket_copy_trading_bot:                   *)
(*   TradeMonitor._listen_events / handle_event  (trade_monitor.py)        *)
(*   TradeDatabase save_trade / update_trade_status / get_pending_trades   *)
(*                                               (database.py)             *)
(*   TradeExecutor.execute_trade                 (trade_executor.py)       *)
(* wired as in main.py: the monitor's trade_callback is                    *)
(* executor.execute_trade, and each of the two objects constructs its own  *)
(* TradeDatabase.                                                          *)
(*                                                                         *)
(* Numbers that Python holds as floats are exact rationals <<n, d>> in     *)
(* lowest terms (d > 0); text is a TLA+ string.                            *)
(***************************************************************************)
EXTENDS Integers, Sequences, FiniteSets, TLC

(***************************************************************************)
(* Bounds of the model.                                                    *)
(***************************************************************************)
\* events the event filter returns over the whole run
MaxEvents == 2
\* seconds of the clock the model tells apart after start (it saturates)
MaxTicks == 1

(***************************************************************************)
(* Configuration (config.py).                                              *)
(***************************************************************************)
TOO_OLD_TIMESTAMP == 300
RETRY_LIMIT == 3
FETCH_INTERVAL == 1
\* the environment's TARGET_WALLET, as written (mixed case)
TARGET_WALLET == "0xAbC1"

\* Python's None where a dict is expected
None == [none |-> TRUE]
\* an optional number is a sequence of at most one number
NoNumber == <<>>

(***************************************************************************)
(* Conversions.                                                            *)
(***************************************************************************)
\* str.lower() on the texts that occur in the model
Lower(s) ==
    CASE s = "0xAbC1" -> "0xabc1"
      [] s = "0xABC1" -> "0xabc1"
      [] s = "0xDeF2" -> "0xdef2"
      [] s = "BUY"    -> "buy"
      [] s = "Buy"    -> "buy"
      [] s = "SELL"   -> "sell"
      [] s = "Sell"   -> "sell"
      [] s = "HOLD"   -> "hold"
      [] OTHER        -> s

HexDigits == <<"0", "1", "2", "3", "4", "5", "6", "7",
               "8", "9", "a", "b", "c", "d", "e", "f">>

\* bytes.hex(): two lower-case hexadecimal digits per byte
RECURSIVE Hex(_)
Hex(bytes) ==
    IF bytes = <<>> THEN ""
    ELSE HexDigits[(Head(bytes) \div 16) + 1]
           \o HexDigits[(Head(bytes) % 16) + 1]
           \o Hex(Tail(bytes))

\* str(n) of a non-negative integer
RECURSIVE Str(_)
Str(n) ==
    IF n < 10 THEN HexDigits[n + 1]
    ELSE Str(n \div 10) \o HexDigits[(n % 10) + 1]

RECURSIVE Gcd(_, _)
Gcd(a, b) == IF b = 0 THEN a ELSE Gcd(b, a % b)

\* the rational n / d (d > 0, n >= 0) in lowest terms
Rat(n, d) == IF n = 0 THEN <<0, 1>> ELSE <<n \div Gcd(n, d), d \div Gcd(n, d)>>

\* float(x) of an integer
Float(x) == Rat(x, 1)

RatDiv(a, b) == Rat(a[1] * b[2], a[2] * b[1])
RatMul(a, b) == Rat(a[1] * b[1], a[2] * b[2])
RatPos(a) == a[1] > 0
Zero == Rat(0, 1)

(***************************************************************************)
(* The event source: the chain's blocks and the fill events.               *)
(***************************************************************************)
\* the clock when the process starts
StartTime == TOO_OLD_TIMESTAMP + 1

\* w3.eth.get_block(n)["timestamp"]: block 1 is already too old at start,
\* block 2 is exactly TOO_OLD_TIMESTAMP old at start, block 3 is new
Blocks == {1, 2, 3}
BlockTimestamp(n) ==
    CASE n = 1 -> StartTime - TOO_OLD_TIMESTAMP - 1
      [] n = 2 -> StartTime - TOO_OLD_TIMESTAMP
      [] OTHER -> StartTime

Addresses == {"0xABC1", "0xDeF2"}
AssetIds == {0, 7, 9}
Amounts == {0, 2000000, 5000000}
TxHashes == {<<171, 1>>, <<205, 2>>}

Event(mk, tk, ma, ta, mf, tf, h, b) ==
    [maker |-> mk, taker |-> tk, makerAssetId |-> ma, takerAssetId |-> ta,
     makerAmountFilled |-> mf, takerAmountFilled |-> tf,
     transactionHash |-> h, blockNumber |-> b]

\* every shape of fill event of the bounded domain
AllEvents ==
    {Event(mk, tk, ma, ta, mf, tf, h, b) :
        mk \in Addresses, tk \in Addresses, ma \in AssetIds, ta \in AssetIds,
        mf \in Amounts, tf \in Amounts, h \in {<<171, 1>>}, b \in Blocks}

\* the events of the running pipeline: the target is the maker and pays cash
PipeEvents ==
    {Event("0xABC1", "0xDeF2", 0, 7, 2000000, 5000000, h, b) :
        h \in TxHashes, b \in Blocks}

(***************************************************************************)
(* TradeMonitor.handle_event: the decoding (trade_monitor.py 30-68).       *)
(***************************************************************************)
target_wallet == Lower(TARGET_WALLET)

matches(ev) ==
    ~(Lower(ev.maker) # target_wallet /\ Lower(ev.taker) # target_wallet)

is_maker(ev) == Lower(ev.maker) = target_wallet

\* the side read off the maker's asset id whatever the target's role
side_of_maker_only(isMaker, maker_asset_id, taker_asset_id) ==
    IF maker_asset_id = 0 THEN "buy" ELSE "sell"

side_of(isMaker, maker_asset_id, taker_asset_id) ==
    IF isMaker
    THEN (IF maker_asset_id = 0 THEN "buy" ELSE "sell")
    ELSE (IF taker_asset_id = 0 THEN "buy" ELSE "sell")

token_amt_of(isMaker, side, maker_amt, taker_amt) ==
    IF isMaker
    THEN (IF side = "buy" THEN taker_amt ELSE maker_amt)
    ELSE (IF side = "buy" THEN maker_amt ELSE taker_amt)

usdc_amt_of(isMaker, side, maker_amt, taker_amt) ==
    IF isMaker
    THEN (IF side = "buy" THEN maker_amt ELSE taker_amt)
    ELSE (IF side = "buy" THEN taker_amt ELSE maker_amt)

price_of(usdc_amt, token_amt) ==
    IF RatPos(token_amt) THEN RatDiv(usdc_amt, token_amt) ELSE Zero

size_of(token_amt) == RatDiv(token_amt, Float(1000000))

asset_id_of(maker_asset_id, taker_asset_id) ==
    Str(IF maker_asset_id # 0 THEN maker_asset_id ELSE taker_asset_id)

\* the dict handle_event builds (lines 60-68)
trade_data(ev) ==
    LET mk     == is_maker(ev)
        side   == side_of(mk, ev.makerAssetId, ev.takerAssetId)
        mamt   == Float(ev.makerAmountFilled)
        tamt   == Float(ev.takerAmountFilled)
        tokens == token_amt_of(mk, side, mamt, tamt)
        usdc   == usdc_amt_of(mk, side, mamt, tamt)
    IN  [trade_id  |-> Hex(ev.transactionHash),
         market    |-> "unknown",
         asset_id  |-> asset_id_of(ev.makerAssetId, ev.takerAssetId),
         side      |-> side,
         price     |-> price_of(usdc, tokens),
         size      |-> size_of(tokens),
         timestamp |-> BlockTimestamp(ev.blockNumber)]

\* the threshold off by one second
fresh_off_by_one(timestamp, clock) ==
    timestamp >= clock - TOO_OLD_TIMESTAMP - 1

\* the test of line 69
fresh(timestamp, clock) == timestamp >= clock - TOO_OLD_TIMESTAMP

(***************************************************************************)
(* TradeDatabase (database.py).                                            *)
(***************************************************************************)
\* the document save_trade builds (lines 26-37)
trade_doc_of(td, status, retry_count, clock) ==
    [trade_id    |-> td.trade_id,
     market      |-> td.market,
     asset_id    |-> td.asset_id,
     side        |-> td.side,
     price       |-> td.price,
     size        |-> td.size,
     timestamp   |-> td.timestamp,
     status      |-> status,
     retry_count |-> retry_count,
     created_at  |-> clock]

\* index of the first document of docs with this trade_id, 0 if none
RECURSIVE first_index(_, _, _)
first_index(docs, trade_id, i) ==
    IF i > Len(docs) THEN 0
    ELSE IF docs[i].trade_id = trade_id THEN i
    ELSE first_index(docs, trade_id, i + 1)

\* update_one / the loop with break (lines 45-54): the first match only
set_status(docs, trade_id, status, retry_count) ==
    LET i == first_index(docs, trade_id, 1)
    IN  IF i = 0 THEN docs
        ELSE IF retry_count = NoNumber
        THEN [docs EXCEPT ![i] = [@ EXCEPT !.status = status]]
        ELSE [docs EXCEPT ![i] = [@ EXCEPT !.status = status,
                                           !.retry_count = retry_count[1]]]

\* the filter of get_pending_trades inverted
is_pending_terminal(t) == t.status # "pending"

is_pending(t) == t.status = "pending"

(***************************************************************************)
(* State.                                                                  *)
(***************************************************************************)
VARIABLES
    monClient,   \* monitor.db.client is set (MongoDB reached in its __init__)
    exeClient,   \* executor.db.client is set
    venue,       \* executor.client is set (ClobClient built)
    collection,  \* the MongoDB collection polymarket_trades.trades
    monMem,      \* monitor.db._in_memory
    exeMem,      \* executor.db._in_memory
    now,         \* time.time()
    lpc,         \* _listen_events: "poll" before get_new_entries, "iter" in the for loop;
                 \* "new" before start(), "dummy" in _dummy_loop, "nothread" when
                 \* start() launched no thread, "off" when no monitor is involved
    batch,       \* the entries of the current pull not yet handled
    pulled,      \* number of events pulled so far
    handled,     \* the event of the latest handle_event call
    hres,        \* how that call went: nomatch, stale, error, saved
    pc,          \* execute_trade: "idle", "try" (top of the loop body), "sleep"
    attempt,     \* the loop variable of execute_trade
    doc,         \* the trade_doc of the latest execute_trade call
    orders,      \* its submissions to the venue, in order: [args, ok]
    writes,      \* its update_trade_status calls, in order: [status, ok]
    result,      \* what it returned
    calls,       \* trade_ids the trade callback was invoked with, in order
    contract,    \* monitor.contract is set (exchange_abi.json was loaded)
    crashed      \* the execution a stop of the process cut short, if any

vars == <<monClient, exeClient, venue, collection, monMem, exeMem, now, lpc,
          batch, pulled, handled, hres, pc, attempt, doc, orders, writes,
          result, calls, contract, crashed>>

process == <<contract, crashed>>
config == <<monClient, exeClient, venue>>
stores == <<collection, monMem, exeMem>>
execution == <<pc, attempt, doc, orders, writes, result, calls>>

\* time.sleep(n): the clock is told apart up to MaxTicks seconds after start
after_sleep(n) ==
    IF now + n > StartTime + MaxTicks THEN StartTime + MaxTicks ELSE now + n

\* what the monitor's TradeDatabase reads and writes
mon_docs == IF monClient THEN collection ELSE monMem
\* what the executor's TradeDatabase reads and writes
exe_docs == IF exeClient THEN collection ELSE exeMem

get_pending_trades(docs) == SelectSeq(docs, is_pending)

\* the store keeps nothing of the intent
save_trade_lost(d) == UNCHANGED <<collection, monMem, exeMem>>

\* monitor.db.save_trade(trade_data) storing d (lines 38-41)
save_trade(d) ==
    IF monClient
    THEN collection' = Append(collection, d) /\ UNCHANGED <<monMem, exeMem>>
    ELSE monMem' = Append(monMem, d) /\ UNCHANGED <<collection, exeMem>>

\* executor.db.update_trade_status(trade_id, status) (lines 44-54)
update_trade_status(trade_id, status) ==
    IF exeClient
    THEN collection' = set_status(collection, trade_id, status, NoNumber)
         /\ UNCHANGED <<monMem, exeMem>>
    ELSE exeMem' = set_status(exeMem, trade_id, status, NoNumber)
         /\ UNCHANGED <<collection, monMem>>

(***************************************************************************)
(* TradeExecutor.execute_trade (trade_executor.py 28-69).                  *)
(***************************************************************************)
BUY == "BUY"
SELL == "SELL"

side_constant(side) == IF Lower(side) = "buy" THEN BUY ELSE SELL

\* the order copies the observed size one to one
unscaled_size(size) == size

scaled_size(size) == IF RatPos(size) THEN RatMul(size, Rat(2, 10)) ELSE Zero

\* OrderArgs(price, size, side, token_id) of line 55
order_args(d) ==
    [price |-> d.price, size |-> scaled_size(d.size),
     side |-> side_constant(d.side), token_id |-> d.asset_id]

Simulated(trade_id) == [status |-> "simulated", trade_id |-> trade_id]
Resp == [status |-> "resp"]
Failed(e) == [status |-> "failed", error |-> e]
Raised(e) == [status |-> "raised", error |-> e]

\* handle_event lets the exception out
handle_event_reraises == FALSE

\* "except Exception" of handle_event (trade_monitor.py 75-76) catches
\* whatever its try block raises, the trade callback included
handle_event_catches == TRUE

\* the loop of _listen_events goes on where it is
loop_goes_on == UNCHANGED <<lpc, now>>

\* an exception that handle_event lets out ends the for loop in the except
\* clause of _listen_events (trade_monitor.py 96-98)
loop_abandons_pull ==
    /\ lpc' = (IF lpc = "off" THEN lpc ELSE "poll")
    /\ now' = after_sleep(FETCH_INTERVAL)

\* the entries left to handle once an exception was raised with rest left
left_after_exception(rest) == IF handle_event_catches THEN rest ELSE <<>>

exception_in_handle_event ==
    IF handle_event_catches THEN loop_goes_on ELSE loop_abandons_pull

\* the except clause marks the intent at every failed attempt
on_exception_marking(e, w) ==
    IF attempt < RETRY_LIMIT
    THEN /\ pc' = "sleep"
         /\ writes' = w
         /\ update_trade_status(doc.trade_id, "failed")
         /\ UNCHANGED <<result, batch>>
         /\ loop_goes_on
    ELSE /\ update_trade_status(doc.trade_id, "failed")
         /\ writes' = Append(w, [status |-> "failed", ok |-> TRUE])
         /\ result' = Failed(e)
         /\ pc' = "idle"
         /\ UNCHANGED batch
         /\ loop_goes_on

\* the except clause (lines 62-69) after a try body that left the log w
on_exception(e, w) ==
    IF attempt < RETRY_LIMIT
    THEN /\ pc' = "sleep"
         /\ writes' = w
         /\ UNCHANGED <<stores, result, batch>>
         /\ loop_goes_on
    ELSE \/ /\ update_trade_status(doc.trade_id, "failed")
            /\ writes' = Append(w, [status |-> "failed", ok |-> TRUE])
            /\ result' = Failed(e)
            /\ pc' = "idle"
            /\ UNCHANGED batch
            /\ loop_goes_on
         \/ /\ exeClient
            /\ writes' = Append(w, [status |-> "failed", ok |-> FALSE])
            /\ result' = Raised("storage")
            /\ pc' = "idle"
            /\ UNCHANGED stores
            /\ batch' = left_after_exception(batch)
            /\ exception_in_handle_event

\* one pass of the loop body with no venue client (lines 39-43)
simulate ==
    /\ pc = "try" /\ ~venue
    /\ \/ /\ update_trade_status(doc.trade_id, "success")
          /\ writes' = Append(writes, [status |-> "success", ok |-> TRUE])
          /\ result' = Simulated(doc.trade_id)
          /\ pc' = "idle"
          /\ UNCHANGED batch
          /\ loop_goes_on
       \/ /\ exeClient
          /\ on_exception("storage",
                          Append(writes, [status |-> "success", ok |-> FALSE]))
    /\ UNCHANGED <<config, process, pulled, handled, hres, attempt,
                   doc, orders, calls>>

\* one pass of the loop body with a venue client (lines 55-61)
submit ==
    /\ pc = "try" /\ venue
    /\ \/ /\ orders' = Append(orders, [args |-> order_args(doc), ok |-> TRUE])
          /\ \/ /\ update_trade_status(doc.trade_id, "success")
                /\ writes' = Append(writes, [status |-> "success", ok |-> TRUE])
                /\ result' = Resp
                /\ pc' = "idle"
                /\ UNCHANGED batch
                /\ loop_goes_on
             \/ /\ exeClient
                /\ on_exception("storage",
                                Append(writes, [status |-> "success", ok |-> FALSE]))
       \/ /\ orders' = Append(orders, [args |-> order_args(doc), ok |-> FALSE])
          /\ on_exception("venue", writes)
    /\ UNCHANGED <<config, process, pulled, handled, hres, attempt,
                   doc, calls>>

\* time.sleep(1) of line 65 and the next value of the loop variable
retry_sleep ==
    /\ pc = "sleep"
    /\ now' = after_sleep(1)
    /\ attempt' = attempt + 1
    /\ pc' = "try"
    /\ UNCHANGED <<config, process, stores, lpc, batch, pulled, handled, hres, doc,
                   orders, writes, result, calls>>

\* entry of execute_trade(d) (lines 29-37)
execute_trade(d) ==
    /\ pc' = "try"
    /\ attempt' = 0
    /\ doc' = d
    /\ orders' = <<>>
    /\ writes' = <<>>
    /\ result' = None
    /\ calls' = Append(calls, d.trade_id)

\* a handle_event call that returns without reaching execute_trade
no_execution ==
    /\ doc' = None
    /\ orders' = <<>>
    /\ writes' = <<>>
    /\ result' = None
    /\ UNCHANGED <<pc, attempt, calls>>

(***************************************************************************)
(* TradeMonitor.handle_event (trade_monitor.py 28-76) on the next entry.   *)
(***************************************************************************)
\* the trade callback runs on a thread of its own
callback_detached == TRUE

\* self.trade_callback(trade_doc) of line 72 is a plain call: the thread of
\* _listen_events is inside it until execute_trade returns
callback_returned == pc = "idle"

handle_event ==
    /\ lpc = "iter" /\ batch # <<>> /\ callback_returned
    /\ LET ev == Head(batch)
           td == trade_data(ev)
           d  == trade_doc_of(td, "pending", 0, now)
       IN  /\ handled' = ev
           /\ \/ /\ ~matches(ev)
                 /\ hres' = "nomatch"
                 /\ no_execution /\ UNCHANGED stores
                 /\ batch' = Tail(batch) /\ loop_goes_on
              \/ /\ matches(ev)          \* get_block raises
                 /\ hres' = "error"
                 /\ no_execution /\ UNCHANGED stores
                 /\ batch' = left_after_exception(Tail(batch))
                 /\ exception_in_handle_event
              \/ /\ matches(ev) /\ ~fresh(td.timestamp, now)
                 /\ hres' = "stale"
                 /\ no_execution /\ UNCHANGED stores
                 /\ batch' = Tail(batch) /\ loop_goes_on
              \/ /\ matches(ev) /\ fresh(td.timestamp, now)
                 /\ monClient           \* insert_one raises
                 /\ hres' = "error"
                 /\ no_execution /\ UNCHANGED stores
                 /\ batch' = left_after_exception(Tail(batch))
                 /\ exception_in_handle_event
              \/ /\ matches(ev) /\ fresh(td.timestamp, now)
                 /\ hres' = "saved"
                 /\ save_trade(d)
                 /\ execute_trade(d)
                 /\ batch' = Tail(batch) /\ loop_goes_on
    /\ UNCHANGED <<config, process, pulled>>

(***************************************************************************)
(* TradeMonitor._listen_events (trade_monitor.py 90-98).                   *)
(***************************************************************************)
\* the lists of at most n events of D
Lists(D, n) == UNION {[1..k -> D] : k \in 0..n}

\* event_filter.get_new_entries() returns, or raises and the loop sleeps
listen_poll(D) ==
    /\ lpc = "poll"
    /\ \/ \E b \in Lists(D, MaxEvents - pulled) :
             /\ batch' = b
             /\ pulled' = pulled + Len(b)
             /\ lpc' = "iter"
             /\ now' = now
       \/ /\ now' = after_sleep(FETCH_INTERVAL)
          /\ UNCHANGED <<batch, pulled, lpc>>
    /\ UNCHANGED <<config, process, stores, handled, hres, execution>>

\* the for loop is over: time.sleep(FETCH_INTERVAL) of line 95
listen_sleep ==
    /\ lpc = "iter" /\ batch = <<>> /\ callback_returned
    /\ now' = after_sleep(FETCH_INTERVAL)
    /\ lpc' = "poll"
    /\ UNCHANGED <<config, process, stores, batch, pulled, handled, hres, execution>>

(***************************************************************************)
(* The program of main.py: both objects constructed, start() has launched  *)
(* _listen_events.                                                         *)
(***************************************************************************)
\* MongoDB is reachable by both constructors or by neither
Constructed ==
    /\ monClient \in BOOLEAN
    /\ exeClient = monClient
    /\ venue \in BOOLEAN
    /\ collection = <<>>
    /\ monMem = <<>>
    /\ exeMem = <<>>
    /\ now = StartTime
    /\ handled = None
    /\ hres = "none"
    /\ pc = "idle"
    /\ attempt = 0
    /\ doc = None
    /\ orders = <<>>
    /\ writes = <<>>
    /\ result = None
    /\ calls = <<>>
    /\ crashed = None

Init ==
    /\ Constructed
    /\ contract = TRUE
    /\ lpc = "poll"
    /\ batch = <<>>
    /\ pulled = 0

poll == listen_poll(PipeEvents)

Next ==
    \/ poll
    \/ handle_event
    \/ simulate
    \/ submit
    \/ retry_sleep
    \/ listen_sleep

Spec == Init /\ [][Next]_vars

(***************************************************************************)
(* handle_event applied to one event of the whole bounded domain: the      *)
(* first pull has returned it.                                             *)
(***************************************************************************)
InitDecode ==
    /\ Constructed
    /\ contract = TRUE
    /\ lpc = "iter"
    /\ batch \in {<<ev>> : ev \in AllEvents}
    /\ pulled = 1

NextDecode ==
    \/ handle_event
    \/ simulate
    \/ submit
    \/ retry_sleep
    \/ listen_sleep

SpecDecode == InitDecode /\ [][NextDecode]_vars

(***************************************************************************)
(* execute_trade called directly with a trade document: the sides a caller *)
(* can pass, the stores as constructed.                                    *)
(***************************************************************************)
Sides == {"buy", "Buy", "BUY", "sell", "SELL", "HOLD", "hold"}

DirectDocs ==
    {trade_doc_of([trade_id |-> Hex(<<171, 1>>), market |-> "unknown",
                   asset_id |-> Str(7), side |-> sd,
                   price |-> Rat(2, 5), size |-> sz,
                   timestamp |-> StartTime], "pending", 0, StartTime) :
        sd \in Sides, sz \in {Zero, Rat(5, 1)}}

InitExec ==
    /\ monClient \in BOOLEAN
    /\ exeClient = monClient
    /\ venue \in BOOLEAN
    /\ collection = <<>>
    /\ monMem = <<>>
    /\ exeMem = <<>>
    /\ now = StartTime
    /\ lpc = "off"
    /\ batch = <<>>
    /\ pulled = 0
    /\ handled = None
    /\ hres = "none"
    /\ pc = "try"
    /\ attempt = 0
    /\ doc \in DirectDocs
    /\ orders = <<>>
    /\ writes = <<>>
    /\ result = None
    /\ calls = <<doc.trade_id>>
    /\ contract = TRUE
    /\ crashed = None

NextExec ==
    \/ simulate
    \/ submit
    \/ retry_sleep

SpecExec == InitExec /\ [][NextExec]_vars

(***************************************************************************)
(* The process stops while execute_trade is running and is started again:  *)
(* main() constructs a new TradeExecutor and TradeMonitor (database.py     *)
(* 11-23: the collection is what MongoDB kept, each _in_memory list is new *)
(* and empty) and start() launches _listen_events on a new filter.         *)
(***************************************************************************)
crash_restart ==
    /\ pc # "idle" /\ crashed = None
    /\ crashed' = [doc |-> doc, durable |-> monClient, attempt |-> attempt,
                   writes |-> writes, slept |-> pc = "sleep"]
    /\ monClient' \in BOOLEAN
    /\ exeClient' = monClient'
    /\ monMem' = <<>>
    /\ exeMem' = <<>>
    /\ lpc' = "poll"
    /\ batch' = <<>>
    /\ handled' = None
    /\ hres' = "none"
    /\ pc' = "idle"
    /\ attempt' = 0
    /\ doc' = None
    /\ orders' = <<>>
    /\ writes' = <<>>
    /\ result' = None
    /\ calls' = <<>>
    /\ UNCHANGED <<venue, contract, collection, now, pulled>>

NextRestart ==
    \/ poll
    \/ handle_event
    \/ simulate
    \/ submit
    \/ retry_sleep
    \/ listen_sleep
    \/ crash_restart

SpecRestart == Init /\ [][NextRestart]_vars

(***************************************************************************)
(* The program from the constructors on: TradeMonitor.start() has not been *)
(* called yet and exchange_abi.json may be missing.                        *)
(***************************************************************************)
\* TradeMonitor.start (trade_monitor.py 78-88)
start ==
    /\ lpc = "new"
    /\ IF ~contract
       THEN lpc' = "dummy"          \* lines 79-82: _dummy_loop on a thread
       ELSE \/ lpc' = "poll"        \* lines 84-86: _listen_events on a thread
            \/ lpc' = "nothread"    \* create_filter raises: logged, lines 87-88
    /\ UNCHANGED <<config, process, stores, now, batch, pulled, handled, hres,
                   execution>>

\* one turn of _dummy_loop (trade_monitor.py 100-103)
dummy_loop ==
    /\ lpc = "dummy"
    /\ now' = after_sleep(FETCH_INTERVAL)
    /\ UNCHANGED <<config, process, stores, lpc, batch, pulled, handled, hres,
                   execution>>

InitStart ==
    /\ Constructed
    /\ contract \in BOOLEAN
    /\ lpc = "new"
    /\ batch = <<>>
    /\ pulled = 0

NextStart ==
    \/ start
    \/ dummy_loop
    \/ poll
    \/ handle_event
    \/ simulate
    \/ submit
    \/ retry_sleep
    \/ listen_sleep

SpecStart == InitStart /\ [][NextStart]_vars

(***************************************************************************)
(* Vocabulary of the properties.                                           *)
(***************************************************************************)
\* execute_trade has returned (or let an exception out) for the trade doc
Completed == pc = "idle" /\ doc # None /\ result # None

Returned == Completed /\ result.status # "raised"

\* the record the monitor's save_trade stored in the latest handle_event,
\* as the monitor's TradeDatabase now reads it
StoredDoc == mon_docs[Len(mon_docs)]

AllDocs == {collection[i] : i \in DOMAIN collection}
             \cup {monMem[i] : i \in DOMAIN monMem}
             \cup {exeMem[i] : i \in DOMAIN exeMem}

Failures(log) == Cardinality({i \in DOMAIN log : ~log[i].ok})
Successes(log) == Cardinality({i \in DOMAIN log : log[i].ok})

\* the venue of this execution raised on its first k submissions and
\* accepted every later one
FailsThenSucceeds ==
    \A i, j \in DOMAIN orders : (i < j /\ orders[i].ok) => orders[j].ok

Min(a, b) == IF a < b THEN a ELSE b

(***************************************************************************)
(* Properties.                                                             *)
(***************************************************************************)

\* C1: at-most-once replication. The trade callback (execute_trade) is
\* invoked at most once per trade_id: no two invocations carry the same
\* trade_id, however many fresh matching events carry that transaction hash.
C1_AtMostOncePerTradeId ==
    \A i, j \in DOMAIN calls : i # j => calls[i] # calls[j]

\* every record of docs with a terminal status keeps it in docsNext
TerminalKept(docs, docsNext) ==
    \A i \in DOMAIN docs :
        docs[i].status \in {"success", "failed"}
            => (i \in DOMAIN docsNext /\ docsNext[i].status = docs[i].status)

\* C2: status transitions are monotonic. In every step, a stored record
\* whose status is success or failed keeps that status, in each store.
C2_StatusMonotonic ==
    [][/\ TerminalKept(collection, collection')
       /\ TerminalKept(monMem, monMem')
       /\ TerminalKept(exeMem, exeMem')]_vars

\* C3: bounded retry. With a venue client that raises on its first k
\* submissions and accepts the later ones, a finished execute_trade has made
\* min(k, RETRY_LIMIT) + 1 submissions; if one was accepted it returned the
\* venue's response and the stored status is success, and if none was it
\* made RETRY_LIMIT + 1 submissions, returned a failed outcome carrying the
\* venue's error and the stored status is failed.
C3_BoundedRetry ==
    (venue /\ hres = "saved" /\ Completed /\ FailsThenSucceeds) =>
        LET k == IF Successes(orders) > 0 THEN Failures(orders)
                 ELSE RETRY_LIMIT + 1
        IN  /\ Len(orders) = Min(k, RETRY_LIMIT) + 1
            /\ k <= RETRY_LIMIT =>
                   (result = Resp /\ StoredDoc.status = "success")
            /\ k > RETRY_LIMIT =>
                   (result = Failed("venue") /\ StoredDoc.status = "failed")

\* the status execute_trade writes before returning res
TerminalOf(res) == IF res.status = "failed" THEN "failed" ELSE "success"

\* C4: the store behaves the same with either backend. Once execute_trade
\* has returned a terminal outcome for the intent handle_event persisted,
\* the monitor's store holds that record with the terminal status and
\* get_pending_trades() on the monitor's store does not return it.
C4_MonitorSeesTerminalStatus ==
    (hres = "saved" /\ Returned) =>
        /\ StoredDoc.status = TerminalOf(result)
        /\ \A i \in DOMAIN get_pending_trades(mon_docs) :
               get_pending_trades(mon_docs)[i].trade_id # doc.trade_id

\* C5: undecodable amounts are rejected before persistence. A matching
\* event whose asset-leg amount is 0 is neither persisted nor dispatched:
\* no stored intent has size 0 and the trade callback is never invoked with
\* an intent of size 0.
C5_ZeroSizeNeverStored ==
    /\ \A d \in AllDocs : d.size # Zero
    /\ doc # None => doc.size # Zero

\* C6: a malformed side fails fast. For a trade document whose side is
\* neither buy nor sell (case-insensitively) execute_trade submits no order
\* to the venue and does not go into a retry.
C6_MalformedSideFailsFast ==
    (doc # None /\ Lower(doc.side) \notin {"buy", "sell"}) =>
        (orders = <<>> /\ pc # "sleep")

\* C7: exactly one terminal status write per intent. A finished
\* execute_trade has made exactly one update_trade_status call (each call
\* carries success or failed).
C7_OneTerminalWrite ==
    Completed => Len(writes) = 1

\* C8: simulated mode. With no venue client, execute_trade submits nothing,
\* a finished call has returned the simulated outcome and the stored status
\* of the intent is success, and the stored status is never failed.
C8_SimulatedSucceeds ==
    (~venue /\ hres = "saved" /\ doc # None) =>
        /\ orders = <<>>
        /\ StoredDoc.status # "failed"
        /\ Completed =>
               (result = Simulated(doc.trade_id) /\ StoredDoc.status = "success")

\* the legs of a fill event as the exchange defines them
TargetIsMaker(ev) == Lower(ev.maker) = Lower(TARGET_WALLET)
CashIsMakerLeg(ev) == ev.makerAssetId = 0
OneCashLeg(ev) == (ev.makerAssetId = 0) # (ev.takerAssetId = 0)
CashAmount(ev) ==
    IF CashIsMakerLeg(ev) THEN ev.makerAmountFilled ELSE ev.takerAmountFilled
AssetAmount(ev) ==
    IF CashIsMakerLeg(ev) THEN ev.takerAmountFilled ELSE ev.makerAmountFilled
TargetPaysCash(ev) == TargetIsMaker(ev) = CashIsMakerLeg(ev)

\* C9: decode correctness. For a matching event with exactly one cash leg
\* (asset id 0) and a positive amount on the other leg, the persisted intent
\* has side buy exactly when the target's own leg (the maker leg if the
\* target is the maker, else the taker leg) is the cash leg, price equal to
\* cash amount / asset amount and size equal to asset amount / 10^6.
C9_DecodeCorrect ==
    (hres = "saved" /\ OneCashLeg(handled) /\ AssetAmount(handled) > 0) =>
        /\ StoredDoc.side = (IF TargetPaysCash(handled) THEN "buy" ELSE "sell")
        /\ StoredDoc.price = Rat(CashAmount(handled), AssetAmount(handled))
        /\ StoredDoc.size = Rat(AssetAmount(handled), 1000000)
        /\ doc.side = StoredDoc.side
        /\ doc.price = StoredDoc.price
        /\ doc.size = StoredDoc.size

\* the target was the taker, paid cash: a buy at 2000000 / 5000000
C9_Witness ==
    /\ hres = "saved"
    /\ ~TargetIsMaker(handled)
    /\ handled.takerAssetId = 0 /\ handled.makerAssetId = 7
    /\ handled.takerAmountFilled = 2000000
    /\ handled.makerAmountFilled = 5000000
    /\ StoredDoc.side = "buy"
    /\ StoredDoc.price = <<2, 5>>
    /\ StoredDoc.size = <<5, 1>>

\* the next entry matches the target and its block is too old
StaleHead ==
    /\ batch # <<>>
    /\ ~(Lower(Head(batch).maker) # Lower(TARGET_WALLET)
           /\ Lower(Head(batch).taker) # Lower(TARGET_WALLET))
    /\ BlockTimestamp(Head(batch).blockNumber) < now - TOO_OLD_TIMESTAMP

\* C10: staleness filter. A handle_event call on a matching event whose
\* block timestamp is less than now - TOO_OLD_TIMESTAMP leaves every store
\* unchanged, does not invoke the trade callback and starts no execution.
C10_StaleDropped ==
    [][(StaleHead /\ batch' = Tail(batch)) =>
          /\ UNCHANGED stores
          /\ calls' = calls
          /\ pc' = "idle"
          /\ orders' = <<>>]_vars

\* an event that was new enough at start was handled after the clock had
\* moved on, with an earlier intent already in the store
C10_Witness ==
    /\ hres = "stale"
    /\ handled.blockNumber = 2
    /\ BlockTimestamp(handled.blockNumber) < now - TOO_OLD_TIMESTAMP
    /\ Len(mon_docs) > 0
    /\ doc = None
    /\ pc = "idle"

\* the newly constructed stores, before the new process has handled anything
JustRestarted == crashed # None /\ handled = None

\* the interrupted intent is among docs, with status pending
HoldsPending(docs, d) ==
    \E i \in DOMAIN docs :
        /\ docs[i].trade_id = d.trade_id
        /\ docs[i].status = "pending"
        /\ docs[i] = d

\* C11 (as claimed): after a stop during execute_trade no status write has
\* happened for the intent, and get_pending_trades() on the newly constructed
\* store returns it with status pending.
C11_PendingSurvivesRestart ==
    JustRestarted =>
        /\ \A i \in DOMAIN crashed.writes : ~crashed.writes[i].ok
        /\ HoldsPending(get_pending_trades(mon_docs), crashed.doc)

\* C11 (amended): the same, when MongoDB was reached by the store that
\* persisted the intent and is reached again by the newly constructed store.
C11_PendingSurvivesRestartDurable ==
    (JustRestarted /\ crashed.durable /\ monClient) =>
        /\ \A i \in DOMAIN crashed.writes : ~crashed.writes[i].ok
        /\ HoldsPending(get_pending_trades(mon_docs), crashed.doc)

\* the process stopped in the back-off sleep after a failed attempt, with
\* MongoDB, and the new store lists the intent as pending
C11_Witness ==
    /\ JustRestarted /\ crashed.durable /\ monClient
    /\ crashed.slept /\ crashed.attempt >= 1
    /\ Len(get_pending_trades(mon_docs)) >= 1
    /\ get_pending_trades(mon_docs)[1] = crashed.doc

\* the intent of the scenario: asset 42, buy, 100 at 0.65
ScenarioIntent ==
    [trade_id |-> "ab01", asset_id |-> Str(42), side |-> "buy",
     price |-> Rat(65, 100), size |-> Rat(100, 1)]

\* C12: scaled replication. Every order execute_trade submits for an intent
\* the monitor persisted carries the intent's price and asset id, the side
\* constant of the intent's side, and a size equal to the intent's size
\* times 0.2 (five times the order size is the intent size), on the first
\* attempt and on every retry; size 100 at 0.65 gives size 20 at 0.65.
C12_ScaledOrder ==
    /\ order_args(ScenarioIntent) =
          [price |-> Rat(65, 100), size |-> Rat(20, 1), side |-> "BUY",
           token_id |-> "42"]
    /\ (hres = "saved" /\ doc # None) =>
          \A i \in DOMAIN orders :
              LET a == orders[i].args
              IN  /\ a.price = StoredDoc.price
                  /\ a.token_id = StoredDoc.asset_id
                  /\ StoredDoc.side \in {"buy", "sell"}
                  /\ a.side = (IF StoredDoc.side = "buy" THEN "BUY" ELSE "SELL")
                  /\ a.size[1] * 5 * StoredDoc.size[2]
                        = StoredDoc.size[1] * a.size[2]

\* a retried sell of 5 units: both submissions ask for 1 unit at 2/5
C12_Witness ==
    /\ hres = "saved" /\ doc # None
    /\ StoredDoc.size = <<5, 1>> /\ StoredDoc.side = "sell"
    /\ Len(orders) >= 2
    /\ ~orders[1].ok
    /\ orders[1].args = orders[2].args
    /\ orders[2].args.size = <<1, 1>>
    /\ orders[2].args.side = "SELL"
    /\ orders[2].args.price = <<2, 5>>

\* passes of the loop body of execute_trade run so far for the trade doc
AttemptsMade == IF pc = "try" THEN attempt ELSE attempt + 1

\* C13: retry_count tracks attempts. While execute_trade runs, the stored
\* retry_count of the intent equals the number of execution attempts made so
\* far (0 at creation), and during and after it retry_count is more than 0
\* once a submission attempt has failed.
C13_RetryCountTracksAttempts ==
    (hres = "saved" /\ doc # None) =>
        /\ pc # "idle" => StoredDoc.retry_count = AttemptsMade
        /\ Failures(orders) > 0 => StoredDoc.retry_count > 0

\* C14: no duplicate order from a storage failure. Within one execute_trade
\* call the venue accepts at most one order, and an intent whose stored
\* status ends as failed has had no order accepted.
C14_NoDuplicateOrder ==
    doc # None =>
        /\ Successes(orders) <= 1
        /\ (hres = "saved" /\ Completed /\ StoredDoc.status = "failed")
              => Successes(orders) = 0

\* handle_event is the only step a state with this guard can take
AtHandleEvent == lpc = "iter" /\ batch # <<>> /\ pc = "idle"

\* C15: events are handled strictly one at a time in poll order: an entry is
\* decoded, persisted and executed to completion before the next entry of the
\* pull is touched, and no execution starts while another one runs
C15_SerializedInOrder ==
    [][ /\ pc # "idle" =>
              /\ handled' = handled
              /\ batch' = batch
              /\ calls' = calls
              /\ Len(mon_docs') = Len(mon_docs)
        /\ (batch # <<>> /\ batch' # batch) =>
              /\ handled' = Head(batch)
              /\ batch' = Tail(batch)
        /\ calls' # calls => pc = "idle" /\ Len(calls') = Len(calls) + 1
      ]_vars

\* the second entry of one pull is executing, the first one having completed
C15_Witness ==
    /\ now = StartTime /\ pulled = 2
    /\ monClient /\ Len(collection) = 2
    /\ collection[1].status = "success"
    /\ collection[2].status = "pending"
    /\ calls = <<collection[1].trade_id, collection[2].trade_id>>
    /\ calls[1] # calls[2]
    /\ pc = "try"

\* C16: an exception raised while decoding, persisting or executing one event,
\* or while pulling entries, is caught: the listener stays in its loop and the
\* remaining entries of the pull are still handled
C16_ListenerSurvives ==
    [][ /\ (AtHandleEvent /\ hres' = "error") =>
              /\ batch' = Tail(batch)
              /\ lpc' = "iter" /\ pc' = "idle"
        /\ (pc # "idle" /\ result' # None /\ result'.status = "raised") =>
              /\ batch' = batch
              /\ lpc' = lpc /\ pc' = "idle"
        /\ lpc = "poll" => lpc' \in {"poll", "iter"}
        /\ lpc = "iter" => lpc' \in {"poll", "iter"}
      ]_vars

\* the callback raised on the first entry of a pull of two, and the second
\* entry has been persisted and handed over all the same
C16_Witness ==
    /\ monClient /\ Len(collection) = 2
    /\ collection[1].status = "pending"
    /\ Len(calls) = 2 /\ calls[1] # calls[2]
    /\ hres = "saved" /\ pc = "try" /\ attempt = 0
    /\ batch = <<>> /\ pulled = 2

\* C17: from the moment an intent is handed to the executor until its terminal
\* write, nothing is written to the store: between attempts the stored record
\* still reads pending
C17_PendingBetweenAttempts ==
    [][ /\ (pc # "idle" /\ pc' # "idle") => UNCHANGED stores
        /\ (pc # "idle" /\ hres = "saved") => StoredDoc.status = "pending"
      ]_vars

\* backing off after the third failed attempt, the record still pending
C17_Witness ==
    /\ monClient /\ hres = "saved"
    /\ pc = "sleep" /\ attempt = 2
    /\ Failures(orders) = 3
    /\ StoredDoc.trade_id = doc.trade_id
    /\ StoredDoc.status = "pending"

\* C18: the callback is called only with an intent whose record was appended
\* to the store in the same step, as pending with retry_count 0; when the
\* handler fails, the callback is not called for that event
C18_PersistBeforeDispatch ==
    [][ /\ calls' # calls =>
              /\ hres' = "saved" /\ pc' = "try"
              /\ calls' = Append(calls, doc'.trade_id)
              /\ Len(mon_docs') = Len(mon_docs) + 1
              /\ mon_docs'[Len(mon_docs')] = doc'
              /\ doc'.status = "pending"
              /\ doc'.retry_count = 0
        /\ (AtHandleEvent /\ hres' = "error") =>
              /\ calls' = calls /\ pc' = "idle"
              /\ UNCHANGED stores
      ]_vars

\* the second intent has just been persisted and handed to the executor
C18_Witness ==
    /\ hres = "saved" /\ pc = "try" /\ attempt = 0
    /\ orders = <<>> /\ writes = <<>>
    /\ Len(calls) = 2
    /\ StoredDoc = doc
    /\ doc.status = "pending" /\ doc.retry_count = 0

\* start() has returned and no live event feed is being listened to
StartedWithoutFeed == lpc \in {"dummy", "nothread"}

\* C19: whenever start() could not obtain a live feed, the idle loop runs on
\* its thread, and it decodes no event, writes nothing to the store and never
\* calls the trade callback
C19_IdleFallback ==
    StartedWithoutFeed =>
        /\ lpc = "dummy"
        /\ handled = None
        /\ collection = <<>> /\ monMem = <<>> /\ exeMem = <<>>
        /\ calls = <<>>

\* the leg whose filled amount handle_event took as token_amt
TokenLegId ==
    IF TargetIsMaker(handled) = (StoredDoc.side = "sell")
    THEN handled.makerAssetId
    ELSE handled.takerAssetId

\* C20: the asset_id of a persisted intent is the non-zero asset id of the
\* leg whose filled amount gave its size and price
C20_AssetIdOfTokenLeg ==
    hres = "saved" =>
        /\ TokenLegId # 0
        /\ StoredDoc.asset_id = Str(TokenLegId)

============================================================================
